---- MODULE Spec2Model ----
(***************************************************************************)
(* BBH tracker (app.py): a Streamlit script over a SQLite store of seven   *)
(* tables.  Every user interaction reruns the script with a fresh session; *)
(* one action below is one script run in which one button was pressed.     *)
(*                                                                         *)
(* A table is the sequence of its rows in id order.  Rows are never        *)
(* deleted one by one, so SQLite's "max(rowid) + 1" makes a row's id equal *)
(* its position; drop_all/create_all restarts the ids at 1.                *)
(* Money is counted in cents; the forms are filled with whole-dollar       *)
(* amounts and whole percents, so the percentage split divides exactly.    *)
(* Binary floating point rounding is not modelled.                         *)
(***************************************************************************)
EXTENDS Integers, Sequences, FiniteSets, TLC

VARIABLES companies, subsidiaries, clients, contracts, revenues, expenses,
          equity_awards,  \* the tables
          wipe_checkbox,  \* the "Wipe DB" box of the admin tab
          button,         \* the button the last script run handled ("" for none)
          msg             \* what that run reported ("" for nothing)

tables == <<companies, subsidiaries, clients, contracts, revenues, expenses,
            equity_awards>>
vars == <<companies, subsidiaries, clients, contracts, revenues, expenses,
          equity_awards, wipe_checkbox, button, msg>>

----------------------------------------------------------------------------
(* Bound of the model: the rows the contracts, revenues, expenses and      *)
(* equity_awards tables hold together.  Then the values the forms are      *)
(* filled with.                                                            *)

MaxRows == 4

room == Len(contracts) + Len(revenues) + Len(expenses) + Len(equity_awards) < MaxRows

ClientNames == {"", "Acme"}
Contacts == {"", "Pat"}
SubsidiaryNames == {"", "NexxusGovSec", "Apex"}
Titles == {"", "Audit"}
Percents == {50}
SignedDates == {""}
RevenueAmounts == {50000}
ExpenseAmounts == {90000}
EquityPercents == {5}
Recipients == {"Acme"}
Kinds == {"Revenue", "Expense", "Equity Award"}

(* Python's None, as a row that no table holds (ids start at 1).           *)
None == [id |-> 0]

----------------------------------------------------------------------------
(* The store: queries and constraints.                                     *)

(* INTEGER PRIMARY KEY without AUTOINCREMENT: one more than the largest id *)
next_id(table) == Len(table) + 1

(* sess.query(T).filter_by(name=...) *)
filter_by_name(table, name) == SelectSeq(table, LAMBDA r : r.name = name)

(* Query.first() *)
first(rows) == IF rows = <<>> THEN None ELSE Head(rows)

(* mutant: the name column without its unique constraint *)
no_unique_constraint(table, name) == FALSE

(* name = Column(String, unique=True): the commit of a row whose name is   *)
(* already in the table raises IntegrityError and is rolled back.          *)
unique_violation(table, name) == \E i \in DOMAIN table : table[i].name = name

(* {r.name: r.id for r in table} *)
options(table) == {table[i].name : i \in DOMAIN table}

option_id(table, name) == first(filter_by_name(table, name)).id

----------------------------------------------------------------------------
(* Aggregation.                                                            *)

RECURSIVE sum_amount(_)
(* func.coalesce(func.sum(amount), 0) over the selected rows *)
sum_amount(rows) ==
    IF rows = <<>> THEN 0 ELSE Head(rows).amount + sum_amount(Tail(rows))

(* mutant: the revenue sum loses its filter on the contract *)
calc_contract_aggregates_all_revenue(contract) ==
    LET total_revenue == sum_amount(revenues)
        total_expenses ==
            sum_amount(SelectSeq(expenses, LAMBDA e : e.contract_id = contract.id))
        profit == total_revenue - total_expenses
        subsidiary_share == (profit * contract.percent_to_subsidiary) \div 100
    IN  [revenue |-> total_revenue, expenses |-> total_expenses,
         profit |-> profit, subsidiary_share |-> subsidiary_share]

calc_contract_aggregates(contract) ==
    LET total_revenue ==
            sum_amount(SelectSeq(revenues, LAMBDA r : r.contract_id = contract.id))
        total_expenses ==
            sum_amount(SelectSeq(expenses, LAMBDA e : e.contract_id = contract.id))
        profit == total_revenue - total_expenses
        subsidiary_share == (profit * contract.percent_to_subsidiary) \div 100
    IN  [revenue |-> total_revenue, expenses |-> total_expenses,
         profit |-> profit, subsidiary_share |-> subsidiary_share]

RECURSIVE fold_contracts(_, _)
(* the loop "for c in contracts: agg[...] += a[...]" *)
fold_contracts(cs, agg) ==
    IF cs = <<>> THEN agg
    ELSE LET a == calc_contract_aggregates(Head(cs))
         IN  fold_contracts(Tail(cs),
                 [agg EXCEPT !.revenue = @ + a.revenue,
                             !.expenses = @ + a.expenses,
                             !.profit = @ + a.profit])

RECURSIVE fold_contract_shares(_, _)
fold_contract_shares(cs, agg) ==
    IF cs = <<>> THEN agg
    ELSE LET a == calc_contract_aggregates(Head(cs))
         IN  fold_contract_shares(Tail(cs),
                 [agg EXCEPT !.revenue = @ + a.revenue,
                             !.expenses = @ + a.expenses,
                             !.profit = @ + a.subsidiary_share])

(* mutant: the rollup adds up the subsidiary shares instead of the profits *)
aggregate_shares_for_subsidiary(subsidiary_id) ==
    LET cs == SelectSeq(contracts, LAMBDA c : c.subsidiary_id = subsidiary_id)
    IN  fold_contract_shares(cs, [revenue |-> 0, expenses |-> 0, profit |-> 0,
                                  contracts |-> Len(cs)])

aggregate_for_subsidiary(subsidiary_id) ==
    LET cs == SelectSeq(contracts, LAMBDA c : c.subsidiary_id = subsidiary_id)
    IN  fold_contracts(cs, [revenue |-> 0, expenses |-> 0, profit |-> 0,
                            contracts |-> Len(cs)])

RECURSIVE fold_subsidiaries(_, _)
(* the loop "for s in subs: agg[...] += a[...]" *)
fold_subsidiaries(ss, agg) ==
    IF ss = <<>> THEN agg
    ELSE LET a == aggregate_for_subsidiary(Head(ss).id)
         IN  fold_subsidiaries(Tail(ss),
                 [agg EXCEPT !.revenue = @ + a.revenue,
                             !.expenses = @ + a.expenses,
                             !.profit = @ + a.profit])

(* mutant: the rollup takes every subsidiary, whatever its company *)
aggregate_for_any_company(company_id) ==
    LET ss == subsidiaries
    IN  fold_subsidiaries(ss, [revenue |-> 0, expenses |-> 0, profit |-> 0,
                               subsidiaries |-> Len(ss)])

aggregate_for_company(company_id) ==
    LET ss == SelectSeq(subsidiaries, LAMBDA s : s.company_id = company_id)
    IN  fold_subsidiaries(ss, [revenue |-> 0, expenses |-> 0, profit |-> 0,
                               subsidiaries |-> Len(ss)])

----------------------------------------------------------------------------
(* Sidebar: bootstrap of the default organisation.                         *)

(* the name the handler looks the parent up by, and the name it inserts *)
ParentLookupName == "BBH"
ParentInsertName == "Black Bear Holdings"
DefaultSubsidiaries == <<"NexxusGovSec", "3SixMedia">>

RECURSIVE add_default_subsidiaries(_, _, _)
(* for name in (...): add the subsidiary unless one of that name exists *)
add_default_subsidiaries(subs, names, parent_id) ==
    IF names = <<>> THEN subs
    ELSE LET sub == first(filter_by_name(subs, Head(names)))
             added == IF sub = None
                      THEN Append(subs, [id |-> next_id(subs), name |-> Head(names),
                                         company_id |-> parent_id])
                      ELSE subs
         IN  add_default_subsidiaries(added, Tail(names), parent_id)

bootstrap_default_org ==
    LET parent == first(filter_by_name(companies, ParentLookupName))
        created == [id |-> next_id(companies), name |-> ParentInsertName,
                    is_parent |-> TRUE]
    IN  /\ button' = "Create default parent & subsidiaries (BBH, NGS, 3SM)"
        /\ IF parent = None /\ unique_violation(companies, ParentInsertName)
           THEN (* sess.commit() raises; the script run ends there *)
                /\ msg' = "IntegrityError"
                /\ UNCHANGED <<companies, subsidiaries>>
           ELSE /\ companies' = IF parent = None THEN Append(companies, created)
                                ELSE companies
                /\ subsidiaries' =
                       add_default_subsidiaries(subsidiaries, DefaultSubsidiaries,
                           IF parent = None THEN created.id ELSE parent.id)
                /\ msg' = "Created BBH, NGS, and 3SM (if missing)."
        /\ UNCHANGED <<clients, contracts, revenues, expenses, equity_awards,
                       wipe_checkbox>>

(* Sidebar: the contracts export.  A CSV text is modelled as the sequence  *)
(* of its lines, a line as the sequence of its cells; the cells keep the   *)
(* values (money in cents), their rendering as text is not modelled.       *)

(* the keys of the dict appended for each contract, in their order *)
ExportColumns ==
    <<"contract_id", "title", "subsidiary", "client", "status", "contract_value",
      "retainer", "signed_date", "revenue", "expenses", "profit">>

(* c.subsidiary / c.client: the row the foreign key names *)
related(table, id) == first(SelectSeq(table, LAMBDA r : r.id = id))

(* rows: one dict per contract, in query order *)
export_rows ==
    [k \in DOMAIN contracts |->
        LET c == contracts[k]
            a == calc_contract_aggregates(c)
        IN  [contract_id |-> c.id,
             title |-> c.title,
             subsidiary |-> related(subsidiaries, c.subsidiary_id).name,
             client |-> related(clients, c.client_id).name,
             status |-> c.status,
             contract_value |-> c.contract_value,
             retainer |-> c.retainer,
             signed_date |-> c.signed_date,
             revenue |-> a.revenue,
             expenses |-> a.expenses,
             profit |-> a.profit]]

(* pd.DataFrame(rows): the columns are the keys of the dicts, so a frame   *)
(* built from an empty list has no column at all                           *)
DataFrame(rows) ==
    [columns |-> IF rows = <<>> THEN <<>> ELSE ExportColumns, rows |-> rows]

(* df.to_csv(index=False): the line of the column names, then one line per *)
(* row; for a frame without columns the first line is empty                *)
to_csv(df) ==
    <<df.columns>> \o
    [k \in DOMAIN df.rows |-> [j \in DOMAIN df.columns |-> df.rows[k][df.columns[j]]]]

(* the file the download button of that run offers *)
contracts_export == to_csv(DataFrame(export_rows))

(* Sidebar: "Export all contracts CSV" reads the store and offers a file.  *)
export_contracts_csv ==
    /\ button' = "Export all contracts CSV"
    /\ msg' = "Download CSV"
    /\ UNCHANGED <<tables, wipe_checkbox>>

(* A script run in which no button was pressed: the tabs are rendered, the *)
(* dashboard computes its rollups, nothing is written.                     *)
rerun ==
    /\ button' = ""
    /\ msg' = ""
    /\ UNCHANGED <<tables, wipe_checkbox>>

----------------------------------------------------------------------------
(* Data entry forms.                                                       *)

(* mutant: the form inserts without looking for a client of that name *)
client_form_unchecked(cname, contact) ==
    /\ button' = "Create client"
    /\ IF cname = ""
       THEN msg' = "Client name required" /\ UNCHANGED clients
       ELSE /\ clients' = Append(clients,
                   [id |-> next_id(clients), name |-> cname,
                    contact |-> contact, email |-> ""])
            /\ msg' = "Created client"
    /\ UNCHANGED <<companies, subsidiaries, contracts, revenues, expenses,
                   equity_awards, wipe_checkbox>>

client_form(cname, contact) ==
    /\ button' = "Create client"
    /\ IF cname = ""
       THEN msg' = "Client name required" /\ UNCHANGED clients
       ELSE IF first(filter_by_name(clients, cname)) # None
            THEN msg' = "Client exists" /\ UNCHANGED clients
            ELSE /\ clients' = Append(clients,
                        [id |-> next_id(clients), name |-> cname,
                         contact |-> contact, email |-> ""])
                 /\ msg' = "Created client"
    /\ UNCHANGED <<companies, subsidiaries, contracts, revenues, expenses,
                   equity_awards, wipe_checkbox>>

(* The value of a select box over the names of a table: one of the names,  *)
(* or None, which like the empty string is falsy, when the table is empty  *)
NoChoice == ""

choices(table) == IF options(table) = {} THEN {NoChoice} ELSE options(table)

subsidiary_form(sname, parent_choice) ==
    /\ button' = "Create subsidiary"
    /\ IF sname = "" \/ parent_choice = NoChoice
       THEN msg' = "Subsidiary name and parent required" /\ UNCHANGED subsidiaries
       ELSE LET pid == option_id(companies, parent_choice)
            IN  IF first(filter_by_name(subsidiaries, sname)) # None
                THEN msg' = "Subsidiary exists" /\ UNCHANGED subsidiaries
                ELSE /\ subsidiaries' = Append(subsidiaries,
                            [id |-> next_id(subsidiaries), name |-> sname,
                             company_id |-> pid])
                     /\ msg' = "Created subsidiary"
    /\ UNCHANGED <<companies, clients, contracts, revenues, expenses,
                   equity_awards, wipe_checkbox>>

contract_form(title, sub_choice, client_choice, percent_to_sub, signed_date) ==
    /\ room
    /\ button' = "Create contract"
    /\ IF title = "" \/ sub_choice = NoChoice \/ client_choice = NoChoice
       THEN msg' = "Title, subsidiary, and client required" /\ UNCHANGED contracts
       ELSE /\ contracts' = Append(contracts,
                   [id |-> next_id(contracts), title |-> title,
                    subsidiary_id |-> option_id(subsidiaries, sub_choice),
                    client_id |-> option_id(clients, client_choice),
                    contract_value |-> 0, retainer |-> 0,
                    percent_to_subsidiary |-> percent_to_sub,
                    signed_date |-> signed_date, status |-> "prospect"])
            /\ msg' = "Created contract"
    /\ UNCHANGED <<companies, subsidiaries, clients, revenues, expenses,
                   equity_awards, wipe_checkbox>>

(* contract_map: the contracts the finance form offers, by id.  The select *)
(* box yields None when there is none; the form then draws no submit       *)
(* button and the run records and reports nothing.                         *)
NoSelection == 0

contract_map == {contracts[i].id : i \in DOMAIN contracts}

selections == IF contract_map = {} THEN {NoSelection} ELSE contract_map

(* mutant: the form records a revenue whether or not a contract is selected *)
finance_form_unguarded(kind, selected, amt, recipient, pct) ==
    /\ room
    /\ button' = "Add revenue"
    /\ revenues' = Append(revenues,
           [id |-> next_id(revenues), contract_id |-> selected, amount |-> amt])
    /\ msg' = "Revenue recorded"
    /\ UNCHANGED <<companies, subsidiaries, clients, contracts, expenses,
                   equity_awards, wipe_checkbox>>

finance_form(kind, selected, amt, recipient, pct) ==
    /\ room
    /\ IF selected = NoSelection
       THEN /\ button' = ""
            /\ msg' = ""
            /\ UNCHANGED <<revenues, expenses, equity_awards>>
       ELSE LET cid == selected
            IN  CASE kind = "Revenue" ->
                       /\ button' = "Add revenue"
                       /\ revenues' = Append(revenues,
                              [id |-> next_id(revenues), contract_id |-> cid,
                               amount |-> amt])
                       /\ msg' = "Revenue recorded"
                       /\ UNCHANGED <<expenses, equity_awards>>
                  [] kind = "Expense" ->
                       /\ button' = "Add expense"
                       /\ expenses' = Append(expenses,
                              [id |-> next_id(expenses), contract_id |-> cid,
                               amount |-> amt])
                       /\ msg' = "Expense recorded"
                       /\ UNCHANGED <<revenues, equity_awards>>
                  [] OTHER ->
                       /\ button' = "Award equity"
                       /\ equity_awards' = Append(equity_awards,
                              [id |-> next_id(equity_awards), contract_id |-> cid,
                               recipient |-> recipient, percent |-> pct])
                       /\ msg' = "Equity award recorded"
                       /\ UNCHANGED <<revenues, expenses>>
    /\ UNCHANGED <<companies, subsidiaries, clients, contracts, wipe_checkbox>>

----------------------------------------------------------------------------
(* Admin tab: the wipe.                                                    *)

(* st.checkbox("Wipe DB (delete all data)"): ticking or clearing the box   *)
(* reruns the script; the box keeps its value between runs                 *)
toggle_wipe_checkbox ==
    /\ wipe_checkbox' = ~wipe_checkbox
    /\ button' = "Wipe DB (delete all data)"
    /\ msg' = ""
    /\ UNCHANGED tables

(* mutant: the wipe leaves the financial records behind *)
drop_all_but_records ==
    /\ companies' = <<>>
    /\ subsidiaries' = <<>>
    /\ clients' = <<>>
    /\ contracts' = <<>>
    /\ UNCHANGED <<revenues, expenses, equity_awards>>

(* mutant: the wipe leaves the clients behind *)
drop_all_but_clients ==
    /\ companies' = <<>>
    /\ subsidiaries' = <<>>
    /\ contracts' = <<>>
    /\ revenues' = <<>>
    /\ expenses' = <<>>
    /\ equity_awards' = <<>>
    /\ UNCHANGED clients

(* Base.metadata.drop_all(engine); Base.metadata.create_all(engine) *)
drop_all_create_all ==
    /\ companies' = <<>>
    /\ subsidiaries' = <<>>
    /\ clients' = <<>>
    /\ contracts' = <<>>
    /\ revenues' = <<>>
    /\ expenses' = <<>>
    /\ equity_awards' = <<>>

(* mutant: the confirm button is drawn whether or not the box is ticked *)
confirm_wipe_unguarded ==
    /\ button' = "Confirm wipe database"
    /\ drop_all_create_all
    /\ msg' = ""
    /\ UNCHANGED wipe_checkbox

(* st.button("Confirm wipe database") is drawn only under the ticked box *)
confirm_wipe ==
    /\ wipe_checkbox
    /\ button' = "Confirm wipe database"
    /\ drop_all_create_all
    /\ msg' = ""
    /\ UNCHANGED wipe_checkbox

----------------------------------------------------------------------------
Init ==
    /\ companies = <<>>
    /\ subsidiaries = <<>>
    /\ clients = <<>>
    /\ contracts = <<>>
    /\ revenues = <<>>
    /\ expenses = <<>>
    /\ equity_awards = <<>>
    /\ wipe_checkbox = FALSE
    /\ button = ""
    /\ msg = ""

Next ==
    \/ bootstrap_default_org
    \/ export_contracts_csv
    \/ rerun
    \/ \E cname \in ClientNames, contact \in Contacts : client_form(cname, contact)
    \/ \E sname \in SubsidiaryNames, parent_choice \in choices(companies) :
           subsidiary_form(sname, parent_choice)
    \/ \E title \in Titles, sub_choice \in choices(subsidiaries),
          client_choice \in choices(clients), percent_to_sub \in Percents,
          signed_date \in SignedDates :
           contract_form(title, sub_choice, client_choice, percent_to_sub, signed_date)
    \/ \E kind \in Kinds, selected \in selections, recipient \in Recipients,
          pct \in EquityPercents :
           \E amt \in (IF kind = "Expense" THEN ExpenseAmounts ELSE RevenueAmounts) :
               finance_form(kind, selected, amt, recipient, pct)
    \/ toggle_wipe_checkbox
    \/ confirm_wipe

Spec == Init /\ [][Next]_vars

----------------------------------------------------------------------------
(* Vocabulary of the properties.                                           *)

RECURSIVE SumOver(_)
(* the sum of the values of a function with a finite domain *)
SumOver(f) ==
    IF DOMAIN f = {} THEN 0
    ELSE LET i == CHOOSE j \in DOMAIN f : TRUE
         IN  f[i] + SumOver([j \in DOMAIN f \ {i} |-> f[j]])

RowsOf(table, cid) == {i \in DOMAIN table : table[i].contract_id = cid}

AmountOf(table, cid) == SumOver([i \in RowsOf(table, cid) |-> table[i].amount])

ContractsOf(sid) == {i \in DOMAIN contracts : contracts[i].subsidiary_id = sid}

SubsidiariesOf(co) == {i \in DOMAIN subsidiaries : subsidiaries[i].company_id = co}

Sign(x) == IF x > 0 THEN 1 ELSE IF x < 0 THEN -1 ELSE 0

StoreEmpty ==
    /\ companies = <<>> /\ subsidiaries = <<>> /\ clients = <<>>
    /\ contracts = <<>> /\ revenues = <<>> /\ expenses = <<>>
    /\ equity_awards = <<>>

Parents == {i \in DOMAIN companies : companies[i].is_parent}

(* one parent company, and the two default subsidiaries under it *)
OneParentTwoDefaults ==
    /\ Cardinality(Parents) = 1
    /\ Len(subsidiaries) = 2
    /\ options(subsidiaries) = {DefaultSubsidiaries[1], DefaultSubsidiaries[2]}
    /\ \A i \in DOMAIN subsidiaries, p \in Parents :
           subsidiaries[i].company_id = companies[p].id

(* the store holds the default organisation and nothing else *)
DefaultOrgOnly ==
    /\ OneParentTwoDefaults
    /\ Len(companies) = 1
    /\ clients = <<>> /\ contracts = <<>> /\ revenues = <<>>
    /\ expenses = <<>> /\ equity_awards = <<>>

----------------------------------------------------------------------------
(* C1: from an empty store, a first bootstrap leaves exactly one parent    *)
(* Company and the two default Subsidiaries under it, and a bootstrap run  *)
(* right after that adds no Company row and no Subsidiary row.             *)
C1_BootstrapTwice ==
    [][ /\ (StoreEmpty /\ bootstrap_default_org) => DefaultOrgOnly'
        /\ (DefaultOrgOnly /\ bootstrap_default_org) =>
               /\ companies' = companies
               /\ subsidiaries' = subsidiaries
               /\ DefaultOrgOnly' ]_vars

(* the second bootstrap has run on the store the first one left *)
C1_Witness ==
    /\ DefaultOrgOnly
    /\ button = "Create default parent & subsidiaries (BBH, NGS, 3SM)"
    /\ msg = "IntegrityError"

(* C2: the bootstrap never ends in a uniqueness error: it looks the parent *)
(* up by the name it inserts and inserts only what is missing.             *)
C2_BootstrapNeverRaises ==
    button = "Create default parent & subsidiaries (BBH, NGS, 3SM)" =>
        msg = "Created BBH, NGS, and 3SM (if missing)."

C4_SubsidiaryAggregate ==
    \A sid \in 0..(Len(subsidiaries) + 1) :
        LET agg == aggregate_for_subsidiary(sid)
            of(i) == calc_contract_aggregates(contracts[i])
        IN  /\ agg.revenue = SumOver([i \in ContractsOf(sid) |-> of(i).revenue])
            /\ agg.expenses = SumOver([i \in ContractsOf(sid) |-> of(i).expenses])
            /\ agg.profit = SumOver([i \in ContractsOf(sid) |-> of(i).profit])
            /\ agg.contracts = Cardinality(ContractsOf(sid))

(* a subsidiary with two contracts whose profit differs from their shares, *)
(* while another subsidiary has a contract of its own                      *)
C4_Witness ==
    \E sid \in 1..Len(subsidiaries) :
        /\ Cardinality(ContractsOf(sid)) = 2
        /\ aggregate_for_subsidiary(sid).profit #
               SumOver([i \in ContractsOf(sid) |->
                           calc_contract_aggregates(contracts[i]).subsidiary_share])
        /\ aggregate_for_subsidiary(sid).revenue > 0

(* C5: for every company id, the rollup's revenue, expenses and profit are *)
(* the sums of the subsidiary rollups over exactly the Subsidiaries of     *)
(* that company, and its count is the number of those Subsidiaries; what   *)
(* belongs to another company's subsidiaries adds nothing.                 *)
C5_CompanyAggregate ==
    \A co \in 0..(Len(companies) + 1) :
        LET agg == aggregate_for_company(co)
            of(i) == aggregate_for_subsidiary(subsidiaries[i].id)
        IN  /\ agg.revenue = SumOver([i \in SubsidiariesOf(co) |-> of(i).revenue])
            /\ agg.expenses = SumOver([i \in SubsidiariesOf(co) |-> of(i).expenses])
            /\ agg.profit = SumOver([i \in SubsidiariesOf(co) |-> of(i).profit])
            /\ agg.subsidiaries = Cardinality(SubsidiariesOf(co))

(* a company whose rollup adds up two subsidiaries with money in each, and *)
(* a company id that owns nothing and rolls up to nothing                  *)
C5_Witness ==
    /\ \E co \in 1..Len(companies) :
           /\ aggregate_for_company(co).subsidiaries >= 2
           /\ Cardinality({i \in SubsidiariesOf(co) :
                  aggregate_for_subsidiary(subsidiaries[i].id).revenue > 0}) >= 2
    /\ aggregate_for_company(Len(companies) + 1).revenue = 0

(* C6: creating a Company, Subsidiary or Client under the name of an       *)
(* existing row of that type is rejected as a duplicate and changes no     *)
(* table; so no table ever holds two rows of one name.                     *)
UniqueNames ==
    \A table \in {companies, subsidiaries, clients} :
        \A i, j \in DOMAIN table : table[i].name = table[j].name => i = j

DuplicateRejected ==
    /\ \A cname \in ClientNames \ {""}, contact \in Contacts :
           (unique_violation(clients, cname) /\ client_form(cname, contact)) =>
               (msg' = "Client exists" /\ UNCHANGED tables)
    /\ \A sname \in SubsidiaryNames \ {""}, parent_choice \in options(companies) :
           (unique_violation(subsidiaries, sname)
               /\ subsidiary_form(sname, parent_choice)) =>
               (msg' = "Subsidiary exists" /\ UNCHANGED tables)
    /\ (unique_violation(companies, ParentInsertName) /\ bootstrap_default_org) =>
           (msg' = "IntegrityError" /\ UNCHANGED tables)

C6_DuplicateName == [](UniqueNames) /\ [][DuplicateRejected]_vars

(* a second client of the same name but another contact was turned down *)
C6_Witness ==
    /\ msg = "Client exists"
    /\ Len(clients) = 1
    /\ Len(subsidiaries) = 3
    /\ clients[1].contact = "Pat"

Recorded(table) ==
    \A i \in DOMAIN table' :
        i \notin DOMAIN table => table'[i].contract_id \in contract_map

Ids(table) == {table[i].id : i \in DOMAIN table}

C8_ReferentialIntegrity ==
    /\ \A i \in DOMAIN subsidiaries : subsidiaries[i].company_id \in Ids(companies)
    /\ \A i \in DOMAIN contracts :
           /\ contracts[i].subsidiary_id \in Ids(subsidiaries)
           /\ contracts[i].client_id \in Ids(clients)
    /\ \A table \in {revenues, expenses, equity_awards} :
           \A i \in DOMAIN table : table[i].contract_id \in Ids(contracts)

(* the store was wiped and filled again, every table holding rows *)
C8_Witness ==
    /\ wipe_checkbox
    /\ \A k \in 1..7 : tables[k] # <<>>
    /\ Len(subsidiaries) = 3
    /\ contracts[1].subsidiary_id = 3

(* C9: right after the wipe every table is empty and every aggregate, of a *)
(* contract, a subsidiary or a company of any id, is zero with count zero. *)
AggregatesZero ==
    /\ \A id \in 0..MaxRows, pct \in Percents :
           calc_contract_aggregates([id |-> id, percent_to_subsidiary |-> pct]) =
               [revenue |-> 0, expenses |-> 0, profit |-> 0, subsidiary_share |-> 0]
    /\ \A id \in 0..MaxRows :
           /\ aggregate_for_subsidiary(id) =
                  [revenue |-> 0, expenses |-> 0, profit |-> 0, contracts |-> 0]
           /\ aggregate_for_company(id) =
                  [revenue |-> 0, expenses |-> 0, profit |-> 0, subsidiaries |-> 0]

C9_WipeZeroes ==
    [][ button' = "Confirm wipe database" => (StoreEmpty /\ AggregatesZero)' ]_vars

(* the wipe has just run *)
C9_Witness ==
    /\ button = "Confirm wipe database"
    /\ StoreEmpty /\ AggregatesZero

(* C10: a step removes or changes an existing row only if the wipe box was *)
(* already ticked before the step and the step is the confirm button; no   *)
(* other action touches an existing row.                                   *)
RowLost ==
    \E k \in 1..7 : \E i \in DOMAIN tables[k] :
        i \notin DOMAIN tables'[k] \/ tables'[k][i] # tables[k][i]

C10_WipeInTwoSteps ==
    [][ RowLost => (wipe_checkbox /\ button' = "Confirm wipe database") ]_vars

(* the box has just been ticked and the rows are all still there *)
C10_Witness ==
    /\ wipe_checkbox
    /\ button = "Wipe DB (delete all data)"
    /\ \A k \in 1..7 : tables[k] # <<>>

(* C11: the export is the fixed header line (contract_id, title,           *)
(* subsidiary, client, status, contract_value, retainer, signed_date,      *)
(* revenue, expenses, profit) followed by exactly one line per Contract,   *)
(* whose revenue, expenses and profit cells are that contract's aggregate; *)
(* with no Contract in the store it is the header line alone.              *)
C11_ExportHeaderAndRows ==
    button = "Export all contracts CSV" =>
        /\ Head(contracts_export) = ExportColumns
        /\ Len(contracts_export) = 1 + Len(contracts)
        /\ \A k \in DOMAIN contracts :
               LET line == contracts_export[k + 1]
                   a == calc_contract_aggregates(contracts[k])
               IN  /\ Len(line) = Len(ExportColumns)
                   /\ line[1] = contracts[k].id
                   /\ line[9] = a.revenue
                   /\ line[10] = a.expenses
                   /\ line[11] = a.profit

====
